---------------------------- MODULE Spec2Model ----------------------------
(***************************************************************************)
(* A model of the wikipedia chatbot of a10.py: the pattern matcher it      *)
(* imports (match), the pattern-action table (pa_list), the dispatcher     *)
(* (search_pa_list), the action adapters with the lookup chain they call,  *)
(* and the interactive session (query_loop).                               *)
(*                                                                         *)
(* Tokens are strings.  In a pattern the tokens "_" and "%" are the SINGLE *)
(* and the MULTI wildcard; in an input they are ordinary tokens.           *)
(***************************************************************************)
EXTENDS Naturals, Sequences, FiniteSets, TLC

VARIABLES
    pc,      \* control location (see the actions)
    table,   \* the module global pa_list that search_pa_list iterates
    src,     \* search_pa_list's argument: the tokenised query
    idx,     \* position of the for loop of search_pa_list in the table
    pat,     \* loop variable pat of search_pa_list
    act,     \* loop variable act of search_pa_list (an action's name)
    mat,     \* local mat of search_pa_list: the result of match(pat, src)
    ret,     \* what search_pa_list returned, once it has
    exc,     \* the exception in flight, or the one that ended the process
    out,     \* the lines printed so far
    nread,   \* the number of input() calls that returned a line
    calls,   \* history: the actions search_pa_list invoked for this query
    outcome  \* history: what the last act(mat) did (returned or raised)

vars ==
    <<pc, table, src, idx, pat, act, mat, ret, exc, out, nread, calls, outcome>>

(***************************************************************************)
(* Bounds of the model.                                                    *)
(***************************************************************************)
MaxPatLen == 4     \* longest pattern the matcher is tried on
MaxSrcLen == 4     \* longest input the matcher is tried on
MaxFill == 2       \* longest run of tokens put in a wildcard's place
MaxQueries == 3    \* lines a session reads before its input ends

SINGLE == "_"
MULTI == "%"

\* All sequences over S of length at most n.
SeqsUpTo(S, n) == UNION {[1..k -> S] : k \in 0..n}

(***************************************************************************)
(* str.join with a single space.                                           *)
(***************************************************************************)
RECURSIVE Join(_)
Join(tokens) ==
    IF tokens = <<>> THEN ""
    ELSE IF Len(tokens) = 1 THEN tokens[1]
    ELSE tokens[1] \o " " \o Join(Tail(tokens))

Drop(s, n) == SubSeq(s, n + 1, Len(s))
Take(s, n) == SubSeq(s, 1, n)

(***************************************************************************)
(* The result of a match: None, or the list of captures.                   *)
(***************************************************************************)
None == [matched |-> FALSE, captures |-> <<>>]
Some(captures) == [matched |-> TRUE, captures |-> captures]

(***************************************************************************)
(* match(pattern, source), left to right over the pattern.  A literal and  *)
(* a SINGLE consume one token; a MULTI tries every split of the remaining  *)
(* input, from zero tokens upward, and keeps the first one for which the   *)
(* rest of the pattern matches the rest of the input.                      *)
(***************************************************************************)
RECURSIVE match(_, _)
RECURSIVE MultiSplit(_, _, _)

\* A wrong matcher: a MULTI takes tokens up to the first one equal to the
\* next pattern element and never retries another split.
RECURSIVE match_greedy(_, _)
RECURSIVE GreedyRun(_, _, _)
GreedyRun(rest, source, n) ==
    IF n > Len(source) THEN None
    ELSE IF n < Len(source) /\ rest[1] \notin {SINGLE, MULTI}
            /\ source[n + 1] # rest[1]
         THEN GreedyRun(rest, source, n + 1)
    ELSE LET r == match_greedy(rest, Drop(source, n))
         IN  IF r.matched
             THEN Some(<<Join(Take(source, n))>> \o r.captures)
             ELSE None

match_greedy(pattern, source) ==
    IF pattern = <<>>
    THEN IF source = <<>> THEN Some(<<>>) ELSE None
    ELSE IF pattern[1] = MULTI
    THEN IF Len(pattern) = 1 THEN Some(<<Join(source)>>)
         ELSE GreedyRun(Tail(pattern), source, 0)
    ELSE IF source = <<>> THEN None
    ELSE IF pattern[1] = SINGLE
    THEN LET r == match_greedy(Tail(pattern), Tail(source))
         IN  IF r.matched THEN Some(<<source[1]>> \o r.captures) ELSE None
    ELSE IF pattern[1] = source[1]
    THEN match_greedy(Tail(pattern), Tail(source))
    ELSE None

\* A wrong matcher: a MULTI that consumed nothing records no capture.
RECURSIVE match_drop_empty(_, _)
RECURSIVE DropEmptySplit(_, _, _)
DropEmptySplit(rest, source, n) ==
    IF n > Len(source) THEN None
    ELSE LET r == match_drop_empty(rest, Drop(source, n))
         IN  IF r.matched
             THEN Some((IF n = 0 THEN <<>> ELSE <<Join(Take(source, n))>>)
                       \o r.captures)
             ELSE DropEmptySplit(rest, source, n + 1)

match_drop_empty(pattern, source) ==
    IF pattern = <<>>
    THEN IF source = <<>> THEN Some(<<>>) ELSE None
    ELSE IF pattern[1] = MULTI
    THEN DropEmptySplit(Tail(pattern), source, 0)
    ELSE IF source = <<>> THEN None
    ELSE IF pattern[1] = SINGLE
    THEN LET r == match_drop_empty(Tail(pattern), Tail(source))
         IN  IF r.matched THEN Some(<<source[1]>> \o r.captures) ELSE None
    ELSE IF pattern[1] = source[1]
    THEN match_drop_empty(Tail(pattern), Tail(source))
    ELSE None

MultiSplit(rest, source, n) ==
    IF n > Len(source) THEN None
    ELSE LET r == match(rest, Drop(source, n))
         IN  IF r.matched
             THEN Some(<<Join(Take(source, n))>> \o r.captures)
             ELSE MultiSplit(rest, source, n + 1)

match(pattern, source) ==
    IF pattern = <<>>
    THEN IF source = <<>> THEN Some(<<>>) ELSE None
    ELSE IF pattern[1] = MULTI
    THEN MultiSplit(Tail(pattern), source, 0)
    ELSE IF source = <<>> THEN None
    ELSE IF pattern[1] = SINGLE
    THEN LET r == match(Tail(pattern), Tail(source))
         IN  IF r.matched THEN Some(<<source[1]>> \o r.captures) ELSE None
    ELSE IF pattern[1] = source[1]
    THEN match(Tail(pattern), Tail(source))
    ELSE None

(***************************************************************************)
(* The line query_loop reads, as a sequence of chunks: a chunk is a run of *)
(* blanks (" "), a question mark ("?") or a run of other characters.       *)
(* query_loop turns it into tokens with                                    *)
(*     .replace("?", "").lower().split()                                   *)
(***************************************************************************)
Blank == " "

\* str.lower on the chunks the model's lines are made of.
lower(chunk) ==
    CASE chunk = "Bye" -> "bye"
      [] chunk = "BYE" -> "bye"
      [] chunk = "When" -> "when"
      [] chunk = "Ada" -> "ada"
      [] OTHER -> chunk

\* str.replace("?", ""): the question marks go, what was around them joins.
RemoveQuestionMarks(line) == SelectSeq(line, LAMBDA c : c # "?")

\* str.split(): the maximal runs of non-blank chunks, each run one token.
RECURSIVE split(_, _)
split(line, word) ==
    IF line = <<>>
    THEN IF word = "" THEN <<>> ELSE <<word>>
    ELSE IF line[1] = Blank
    THEN (IF word = "" THEN <<>> ELSE <<word>>) \o split(Tail(line), "")
    ELSE split(Tail(line), word \o line[1])

LowerAll(line) == [k \in 1..Len(line) |-> lower(line[k])]

Tokenize(line) == split(LowerAll(RemoveQuestionMarks(line)), "")

(***************************************************************************)
(* The lookup chain.  What Wikipedia holds for a topic is the              *)
(* environment's choice: whether the search has a result, whether the page *)
(* has an infobox, whether the field's regular expression finds a value in *)
(* it, and the value.                                                      *)
(***************************************************************************)
Raise(e) == [exc |-> e, val |-> ""]
Return(v) == [exc |-> "none", val |-> v]

\* Values a field's regular expression can capture.  The birth date is
\* \d{4}-\d{2}-\d{2}; the radius and the elevation are runs over [\d,.];
\* the address is any run over [\d\w\s.,], words included; the runway
\* length is the rest of a line, [^\n]*, which may be empty.
FieldValues(field) ==
    CASE field = "birth" -> {"1815-12-10"}
      [] field = "radius" -> {"6,356.752", "."}
      [] field = "address" -> {"1 Main", "No answers"}
      [] field = "elevation" -> {"13"}
      [] field = "length" -> {"", "3,902", "No answers"}

Pages(field) ==
    {[results |-> FALSE, infobox |-> FALSE, found |-> FALSE, value |-> ""],
     [results |-> TRUE, infobox |-> FALSE, found |-> FALSE, value |-> ""],
     [results |-> TRUE, infobox |-> TRUE, found |-> FALSE, value |-> ""]}
    \cup {[results |-> TRUE, infobox |-> TRUE, found |-> TRUE, value |-> v] :
             v \in FieldValues(field)}

\* results[0] of an empty search result is an IndexError.
get_page_html(page) ==
    IF page.results THEN Return("html") ELSE Raise("IndexError")

get_first_infobox_text(page) ==
    IF page.infobox THEN Return("infobox") ELSE Raise("LookupError")

get_match(page) ==
    IF page.found THEN Return(page.value) ELSE Raise("AttributeError")

\* clean_text(get_first_infobox_text(get_page_html(topic))), then
\* get_match(...).group(name): the first failure propagates.
get_field(page) ==
    IF get_page_html(page).exc # "none" THEN get_page_html(page)
    ELSE IF get_first_infobox_text(page).exc # "none"
    THEN get_first_infobox_text(page)
    ELSE get_match(page)

get_polar_radius(planet_name, page) == get_field(page)
get_birth_date(name, page) == get_field(page)
get_address(school_name, page) == get_field(page)
get_elevation(airport_name, page) == get_field(page)
get_runway_length(airport_name, runway_name, page) == get_field(page)

(***************************************************************************)
(* The actions.  An action's outcome is the list it returns or the         *)
(* exception it raises.                                                    *)
(***************************************************************************)
Raised(e) == [exc |-> e, answer |-> <<>>]
Returned(answer) == [exc |-> "none", answer |-> answer]
Pending == [exc |-> "pending", answer |-> <<>>]

\* [f(...)] or [f(...) + suffix]: a one-element list, unless f raised.
Wrap(r, suffix) ==
    IF r.exc # "none" THEN Raised(r.exc) ELSE Returned(<<r.val \o suffix>>)

birth_date(matches, page) == Wrap(get_birth_date(Join(matches), page), "")

polar_radius(matches, page) ==
    IF Len(matches) < 1 THEN Raised("IndexError")
    ELSE Wrap(get_polar_radius(matches[1], page), "")

address(matches, page) == Wrap(get_address(Join(matches), page), "")

\* A wrong adapter: the value is looked up but not put in the list returned.
elevation_bare(matches, page) ==
    LET r == get_elevation(Join(matches), page)
    IN  IF r.exc # "none" THEN Raised(r.exc) ELSE Returned(<<>>)

elevation(matches, page) == Wrap(get_elevation(Join(matches), page), " ft")

runway_length(matches, page) ==
    IF Len(matches) < 2 THEN Raised("IndexError")
    ELSE Wrap(get_runway_length(matches[2], matches[1], page), " ft")

bye_action(dummy) == Raised("KeyboardInterrupt")

\* Two more callables of type Action, as a test of search_pa_list would
\* bind them: one returns its captures, one returns no answer.
echo_action(matches) == Returned(matches)
no_answer_action(matches) == Returned(<<>>)

\* act(mat): the call of an action by its name.
Call(name, matches, page) ==
    CASE name = "birth_date" -> birth_date(matches, page)
      [] name = "polar_radius" -> polar_radius(matches, page)
      [] name = "address" -> address(matches, page)
      [] name = "elevation" -> elevation(matches, page)
      [] name = "runway_length" -> runway_length(matches, page)
      [] name = "bye_action" -> bye_action(matches)
      [] name = "echo_action" -> echo_action(matches)
      [] name = "no_answer_action" -> no_answer_action(matches)

\* The pages the environment may answer an action's lookup with.
PagesOf(name) ==
    CASE name = "birth_date" -> Pages("birth")
      [] name = "polar_radius" -> Pages("radius")
      [] name = "address" -> Pages("address")
      [] name = "elevation" -> Pages("elevation")
      [] name = "runway_length" -> Pages("length")
      [] OTHER -> {[results |-> FALSE, infobox |-> FALSE, found |-> FALSE,
                    value |-> ""]}

Entry(pattern, action) == [pat |-> pattern, act |-> action]

\* A wrong table: the address pattern lost its "address of".
pa_list_overlap ==
    << Entry(<<"when", "was", "%", "born">>, "birth_date"),
       Entry(<<"what", "is", "the", "polar", "radius", "of", "%">>,
             "polar_radius"),
       Entry(<<"what", "is", "the", "%">>, "address"),
       Entry(<<"what", "is", "the", "elevation", "of", "%">>, "elevation"),
       Entry(<<"what", "is", "the", "length", "of", "runway", "_", "at",
               "%">>, "runway_length"),
       Entry(<<"bye">>, "bye_action") >>

pa_list ==
    << Entry(<<"when", "was", "%", "born">>, "birth_date"),
       Entry(<<"what", "is", "the", "polar", "radius", "of", "%">>,
             "polar_radius"),
       Entry(<<"what", "is", "the", "address", "of", "%">>, "address"),
       Entry(<<"what", "is", "the", "elevation", "of", "%">>, "elevation"),
       Entry(<<"what", "is", "the", "length", "of", "runway", "_", "at",
               "%">>, "runway_length"),
       Entry(<<"bye">>, "bye_action") >>

(***************************************************************************)
(* Inputs.                                                                 *)
(***************************************************************************)
FillVocab == {"born", "at"}
Fill == SeqsUpTo(FillVocab, MaxFill)
ShortFill == SeqsUpTo(FillVocab, 1)

\* Token sequences search_pa_list is called on: short runs, every
\* configured pattern with its wildcards filled, and near misses.
Srcs ==
    Fill
    \cup {<<"bye">>, <<"bye", "bye">>, <<"asdf", "qwer">>, <<"%">>, <<"_">>}
    \cup {<<"when", "was">> \o f \o <<"born">> : f \in Fill}
    \cup {<<"what", "is", "the">> \o w \o <<"of">> \o f :
             w \in {<<"polar", "radius">>, <<"address">>, <<"elevation">>,
                    <<"polar">>},
             f \in ShortFill}
    \cup {<<"what", "is", "the", "length", "of", "runway">> \o f \o <<"at">>
             \o g : f \in Fill, g \in ShortFill}

\* Every reordering of a table.
Reorderings(t) ==
    {[k \in 1..Len(t) |-> t[f[k]]] :
        f \in {g \in [1..Len(t) -> 1..Len(t)] :
                  \A a, b \in 1..Len(t) : a # b => g[a] # g[b]}}

\* Tables whose patterns overlap, whose actions return no answer or
\* several, and the empty table.
TestTables ==
    { << Entry(<<"%", "born">>, "no_answer_action"),
         Entry(<<"when", "was", "%", "born">>, "birth_date"),
         Entry(<<"%">>, "echo_action"),
         Entry(<<"bye">>, "bye_action") >>,
      << Entry(<<"bye">>, "bye_action"),
         Entry(<<"at">>, "echo_action"),
         Entry(<<"_", "%", "%">>, "echo_action"),
         Entry(<<"%">>, "no_answer_action") >>,
      << Entry(<<"what", "is", "the", "%">>, "polar_radius"),
         Entry(<<"bye">>, "polar_radius"),
         Entry(<<"_", "at", "%">>, "runway_length"),
         Entry(<<"%", "at", "%">>, "elevation") >>,
      << >> }

Tables == Reorderings(pa_list) \cup TestTables

\* Lines typed at the prompt, in chunks.
RawLines ==
    { << >>,
      <<"bye">>,
      <<"Bye", "?">>,
      <<" ", "BYE", " ">>,
      <<"by", "?", "e">>,
      <<"bye", " ", "bye">>,
      <<"asdf", " ", "qwer">>,
      <<"When", " ", "was", " ", "Ada", " ", "lovelace", " ", "born", "?">>,
      <<"when", " ", "was", " ", "born">>,
      <<"what", " ", "is", " ", "the", " ", "polar", " ", "radius", " ",
        "of", " ", "earth">>,
      <<"what", " ", "is", " ", "the", " ", "address", " ", "of", " ", "lths">>,
      <<"what", " ", "is", " ", "the", " ", "elevation", " ", "of", " ",
        "ohare", "?">>,
      <<"what", " ", "is", " ", "the", " ", "length", " ", "of", " ",
        "runway", " ", "4l", " ", "at", " ", "heathrow">> }

(***************************************************************************)
(* search_pa_list.                                                         *)
(*   pc = "search"    at the head of the for loop, idx the next entry      *)
(*   pc = "call"      in act(mat)                                          *)
(*   pc = "returned"  search_pa_list has returned ret.value                *)
(*   pc = "raised"    exc is propagating out of search_pa_list             *)
(***************************************************************************)
NotReturned == [returned |-> FALSE, value |-> <<>>]
HasReturned(value) == [returned |-> TRUE, value |-> value]

\* A wrong normalisation: the answer is returned as it is, empty or not.
Normalise_verbatim(answer) == answer

\* return answer if answer else ["No answers"]
Normalise(answer) == IF answer # <<>> THEN answer ELSE <<"No answers">>

\* One iteration of the for loop: the entry's pattern does not match.
ForNoMatch ==
    /\ pc = "search"
    /\ idx <= Len(table)
    /\ ~match(table[idx].pat, src).matched
    /\ pat' = table[idx].pat
    /\ act' = table[idx].act
    /\ mat' = None
    /\ idx' = idx + 1
    /\ UNCHANGED <<pc, table, src, ret, exc, out, nread, calls, outcome>>

\* One iteration of the for loop: the pattern matches, the action is called.
ForMatch ==
    /\ pc = "search"
    /\ idx <= Len(table)
    /\ match(table[idx].pat, src).matched
    /\ pat' = table[idx].pat
    /\ act' = table[idx].act
    /\ mat' = match(table[idx].pat, src)
    /\ calls' = Append(calls, [act |-> act', mat |-> mat'.captures])
    /\ pc' = "call"
    /\ UNCHANGED <<table, src, idx, ret, exc, out, nread, outcome>>

\* A wrong end of the loop: the two sentinels are swapped.
ForExhausted_no_answers ==
    /\ pc = "search"
    /\ idx > Len(table)
    /\ ret' = HasReturned(<<"No answers">>)
    /\ pc' = "returned"
    /\ UNCHANGED <<table, src, idx, pat, act, mat, exc, out, nread, calls, outcome>>

\* The loop is over: return ["I don't understand"].
ForExhausted ==
    /\ pc = "search"
    /\ idx > Len(table)
    /\ ret' = HasReturned(<<"I don't understand">>)
    /\ pc' = "returned"
    /\ UNCHANGED <<table, src, idx, pat, act, mat, exc, out, nread, calls, outcome>>

\* A wrong loop body: the answer is not returned and the loop goes on.
AfterAnswer_continue(answer) ==
    /\ idx' = idx + 1
    /\ pc' = "search"
    /\ UNCHANGED <<table, src, pat, act, mat, ret, exc, out, nread, calls>>

\* What follows the return of act(mat).
AfterAnswer(answer) ==
    /\ ret' = HasReturned(Normalise(answer))
    /\ pc' = "returned"
    /\ UNCHANGED <<table, src, idx, pat, act, mat, exc, out, nread, calls>>

\* The action returns a list.
ActionReturns ==
    /\ pc = "call"
    /\ \E page \in PagesOf(act) :
          LET o == Call(act, mat.captures, page)
          IN  /\ o.exc = "none"
              /\ outcome' = o
              /\ AfterAnswer(o.answer)

\* A wrong loop body: the call is wrapped in a try that answers for the
\* exception.
AfterRaise_swallow(e) ==
    /\ ret' = HasReturned(<<"No answers">>)
    /\ pc' = "returned"
    /\ UNCHANGED <<table, src, idx, pat, act, mat, exc, out, nread, calls>>

\* What follows an exception raised in act(mat): nothing in search_pa_list
\* catches it.
AfterRaise(e) ==
    /\ exc' = e
    /\ pc' = "raised"
    /\ UNCHANGED <<table, src, idx, pat, act, mat, ret, out, nread, calls>>

\* The action raises.
ActionRaises ==
    /\ pc = "call"
    /\ \E page \in PagesOf(act) :
          LET o == Call(act, mat.captures, page)
          IN  /\ o.exc # "none"
              /\ outcome' = o
              /\ AfterRaise(o.exc)

\* Ctrl-C while a lookup is under way.
LookupInterrupted ==
    /\ pc = "call"
    /\ act \in {"birth_date", "polar_radius", "address", "elevation",
                "runway_length"}
    /\ outcome' = Raised("KeyboardInterrupt")
    /\ AfterRaise("KeyboardInterrupt")

(***************************************************************************)
(* query_loop.                                                             *)
(*   pc = "start"     before the welcome                                   *)
(*   pc = "prompt"    at the head of the while loop                        *)
(*   pc = "farewell"  after the break                                      *)
(*   pc = "done"      query_loop has returned                              *)
(*   pc = "crashed"   exc left query_loop uncaught                         *)
(***************************************************************************)
Caught == {"KeyboardInterrupt", "EOFError"}

WelcomeLine == "Welcome to the wikipedia chatbot!\n"
PromptLine == "Your query? "
FarewellLine == "\nSo long!\n"

Welcome ==
    /\ pc = "start"
    /\ out' = Append(out, WelcomeLine)
    /\ pc' = "prompt"
    /\ UNCHANGED <<table, src, idx, pat, act, mat, ret, exc, nread, calls, outcome>>

\* print(); input(...) returns a line; the call of search_pa_list begins.
ReadQuery ==
    /\ pc = "prompt"
    /\ nread < MaxQueries
    /\ \E line \in RawLines : src' = Tokenize(line)
    /\ out' = out \o <<"", PromptLine>>
    /\ nread' = nread + 1
    /\ idx' = 1
    /\ pat' = <<>>
    /\ act' = "none"
    /\ mat' = None
    /\ ret' = NotReturned
    /\ calls' = <<>>
    /\ outcome' = Pending
    /\ pc' = "search"
    /\ UNCHANGED <<table, exc>>

\* print(); input(...) raises: Ctrl-C or the end of the input.
InputRaises ==
    /\ pc = "prompt"
    /\ \E e \in Caught : exc' = e
    /\ out' = out \o <<"", PromptLine>>
    /\ ret' = NotReturned
    /\ calls' = <<>>
    /\ outcome' = Pending
    /\ pc' = "raised"
    /\ UNCHANGED <<table, src, idx, pat, act, mat, nread>>

\* for ans in answers: print(ans)
PrintAnswers ==
    /\ pc = "returned"
    /\ out' = out \o ret.value
    /\ pc' = "prompt"
    /\ UNCHANGED <<table, src, idx, pat, act, mat, ret, exc, nread, calls, outcome>>

\* A wrong except clause: only the end of the input is caught.
Handle_eof_only(e) == IF e = "EOFError" THEN "farewell" ELSE "crashed"

\* What the except clause of query_loop makes of exc.
Handle(e) == IF e \in Caught THEN "farewell" ELSE "crashed"

\* except (KeyboardInterrupt, EOFError): break
ExceptBreak ==
    /\ pc = "raised"
    /\ Handle(exc) = "farewell"
    /\ pc' = "farewell"
    /\ UNCHANGED <<table, src, idx, pat, act, mat, ret, exc, out, nread, calls, outcome>>

\* Any other exception leaves query_loop and ends the process.
Uncaught ==
    /\ pc = "raised"
    /\ Handle(exc) = "crashed"
    /\ pc' = "crashed"
    /\ UNCHANGED <<table, src, idx, pat, act, mat, ret, exc, out, nread, calls, outcome>>

Farewell ==
    /\ pc = "farewell"
    /\ out' = Append(out, FarewellLine)
    /\ pc' = "done"
    /\ UNCHANGED <<table, src, idx, pat, act, mat, ret, exc, nread, calls, outcome>>

(***************************************************************************)
(* The session: query_loop() with the configured table.                    *)
(***************************************************************************)
Init ==
    /\ pc = "start"
    /\ table = pa_list
    /\ src = <<>>
    /\ idx = 1
    /\ pat = <<>>
    /\ act = "none"
    /\ mat = None
    /\ ret = NotReturned
    /\ exc = "none"
    /\ out = <<>>
    /\ nread = 0
    /\ calls = <<>>
    /\ outcome = Pending

Search ==
    \/ ForNoMatch
    \/ ForMatch
    \/ ForExhausted
    \/ ActionReturns
    \/ ActionRaises
    \/ LookupInterrupted

Next ==
    \/ Welcome
    \/ ReadQuery
    \/ InputRaises
    \/ Search
    \/ PrintAnswers
    \/ ExceptBreak
    \/ Uncaught
    \/ Farewell

Spec == Init /\ [][Next]_vars

(***************************************************************************)
(* One call of search_pa_list, on any table and any input.                 *)
(***************************************************************************)
InitDispatch ==
    /\ pc = "search"
    /\ table \in Tables
    /\ src \in Srcs
    /\ idx = 1
    /\ pat = <<>>
    /\ act = "none"
    /\ mat = None
    /\ ret = NotReturned
    /\ exc = "none"
    /\ out = <<>>
    /\ nread = 0
    /\ calls = <<>>
    /\ outcome = Pending

SpecDispatch == InitDispatch /\ [][Search]_vars

(***************************************************************************)
(* One call of match, on any pattern and any input.                        *)
(***************************************************************************)
PatVocab == {"a", "b", SINGLE, MULTI}
SrcVocab == {"a", "b", MULTI}

InitMatch ==
    /\ pc = "match"
    /\ table = <<>>
    /\ src \in SeqsUpTo(SrcVocab, MaxSrcLen)
    /\ idx = 1
    /\ pat \in SeqsUpTo(PatVocab, MaxPatLen)
    /\ act = "none"
    /\ mat = None
    /\ ret = NotReturned
    /\ exc = "none"
    /\ out = <<>>
    /\ nread = 0
    /\ calls = <<>>
    /\ outcome = Pending

MatchCall ==
    /\ pc = "match"
    /\ mat' = match(pat, src)
    /\ pc' = "matched"
    /\ UNCHANGED <<table, src, idx, pat, act, ret, exc, out, nread, calls, outcome>>

SpecMatch == InitMatch /\ [][MatchCall]_vars

(***************************************************************************)
(* Properties of search_pa_list.                                           *)
(***************************************************************************)
\* The entries of table t whose pattern matches s, and the first of them
\* (0 when there is none).
Matching(t, s) == {k \in 1..Len(t) : match(t[k].pat, s).matched}
Lowest(S) == IF S = {} THEN 0 ELSE CHOOSE k \in S : \A j \in S : k <= j
FirstMatching(t, s) == LET m == Matching(t, s) IN Lowest(m)

Finished == pc \in {"returned", "raised"}

LookupFailures == {"IndexError", "LookupError", "AttributeError"}

\* C1: search_pa_list invokes at most one action, and it is the action of
\* the first entry in table order whose pattern matches the input, called
\* with that pattern's captures; once the call is over and some pattern
\* matches, exactly that one action has been invoked.
C1_FirstMatchOnly ==
    LET first == FirstMatching(table, src)
    IN  /\ Len(calls) <= 1
        /\ calls # <<>> =>
              /\ first # 0
              /\ calls[1] = [act |-> table[first].act,
                             mat |-> match(table[first].pat, src).captures]
        /\ (Finished /\ first # 0) => Len(calls) = 1

\* Two entries match the input, their actions differ, and only the first
\* one's action was invoked.
C1_Witness ==
    /\ pc = "returned"
    /\ Len(calls) = 1
    /\ \E j, k \in Matching(table, src) :
          /\ j < k
          /\ table[j].act = calls[1].act
          /\ table[k].act # table[j].act

\* C2: when no pattern of the table matches the input, search_pa_list
\* invokes no action, raises nothing, and what it returns is exactly
\* ["I don't understand"].
C2_NoMatchSentinel ==
    Matching(table, src) = {} =>
        /\ calls = <<>>
        /\ outcome = Pending
        /\ exc = "none"
        /\ pc \in {"search", "returned"}
        /\ pc = "search" => ret = NotReturned
        /\ pc = "returned" => ret = HasReturned(<<"I don't understand">>)

\* The empty input, which no pattern of the configured table matches.
C2_Witness ==
    /\ pc = "returned"
    /\ src = <<>>
    /\ table = pa_list
    /\ idx = Len(pa_list) + 1
    /\ ret.value = <<"I don't understand">>

\* C3: when the action of the first matching entry returns, search_pa_list
\* returns ["No answers"] for an empty list and the list itself otherwise,
\* and the loop has not gone past that entry.
C3_EmptyAnswerSentinel ==
    (pc = "returned" /\ outcome.exc = "none") =>
        /\ ret.returned
        /\ outcome.answer = <<>> => ret.value = <<"No answers">>
        /\ outcome.answer # <<>> => ret.value = outcome.answer
        /\ Len(calls) = 1
        /\ idx = FirstMatching(table, src)

\* An action returned the empty list while a later entry matches as well.
C3_Witness ==
    /\ pc = "returned"
    /\ outcome = Returned(<<>>)
    /\ ret.value = <<"No answers">>
    /\ \E k \in Matching(table, src) : k > idx

\* C4: when the action of the first matching entry raises a lookup
\* failure, search_pa_list returns nothing: the failure is in flight to the
\* caller, and the loop has not gone past that entry.
C4_LookupFailurePropagates ==
    outcome.exc \in LookupFailures =>
        /\ pc = "raised"
        /\ exc = outcome.exc
        /\ ret = NotReturned
        /\ Len(calls) = 1
        /\ idx = FirstMatching(table, src)

\* A page without an infobox, while a later entry matches as well.
C4_Witness ==
    /\ pc = "raised"
    /\ exc = "LookupError"
    /\ outcome = Raised("LookupError")
    /\ \E k \in Matching(table, src) : k > idx

(***************************************************************************)
(* Properties of match, against a description of matching that does not    *)
(* follow the algorithm: an assignment gives every pattern element the     *)
(* number of input tokens it consumes.                                     *)
(***************************************************************************)
Wildcards == {SINGLE, MULTI}

\* The ways of giving the elements of pattern p lengths that add up to n:
\* one for a literal or a SINGLE, any number for a MULTI.
RECURSIVE Splits(_, _)
Splits(p, n) ==
    IF p = <<>> THEN (IF n = 0 THEN {<<>>} ELSE {})
    ELSE IF p[1] = MULTI
    THEN UNION {{<<k>> \o t : t \in Splits(Tail(p), n - k)} : k \in 0..n}
    ELSE IF n = 0 THEN {}
    ELSE {<<1>> \o t : t \in Splits(Tail(p), n - 1)}

RECURSIVE Sum(_)
Sum(lens) == IF lens = <<>> THEN 0 ELSE lens[1] + Sum(Tail(lens))

\* The tokens of s that element k consumes under lens.
Segment(s, lens, k) ==
    SubSeq(s, Sum(Take(lens, k - 1)) + 1, Sum(Take(lens, k)))

\* The assignments under which p consumes the whole of s: every literal
\* sits on a token equal to it.
Assignments(p, s) ==
    {lens \in Splits(p, Len(s)) :
        \A k \in 1..Len(p) :
            p[k] \notin Wildcards => Segment(s, lens, k) = <<p[k]>>}

\* The positions of the wildcards of p, left to right.
WildPositions(p) ==
    SelectSeq([k \in 1..Len(p) |-> k], LAMBDA k : p[k] \in Wildcards)

\* One capture per wildcard, in pattern order: what it consumed, joined.
CapturesOf(p, s, lens) ==
    [j \in 1..Len(WildPositions(p)) |->
        Join(Segment(s, lens, WildPositions(p)[j]))]

\* a comes before b when, at the first element where they differ, a's is
\* shorter: only a MULTI can differ.
Before(a, b) ==
    \E k \in 1..Len(a) :
        /\ a[k] < b[k]
        /\ \A j \in 1..(k - 1) : a[j] = b[j]

Least(A) == CHOOSE a \in A : \A b \in A : a = b \/ Before(a, b)

\* C7: a successful match of a pattern with k wildcards returns exactly k
\* captures, and they are, in the pattern's left-to-right order, what the
\* wildcards consumed under some assignment: one token for a SINGLE, the
\* space-joined run for a MULTI, the empty string for a MULTI that consumed
\* nothing.
C7_OneCapturePerWildcard ==
    (pc = "matched" /\ mat.matched) =>
        /\ Len(mat.captures) = Len(WildPositions(pat))
        /\ \E lens \in Assignments(pat, src) :
              mat.captures = CapturesOf(pat, src, lens)

\* A SINGLE took a token and the MULTI after it took none: two captures.
C7_Witness ==
    /\ pc = "matched"
    /\ pat = <<SINGLE, MULTI, "a">>
    /\ src = <<"b", "a">>
    /\ mat = Some(<<"b", "">>)

\* C8: match succeeds exactly when some assignment makes the pattern
\* consume the whole input, and then its captures are those of the
\* assignment in which the leftmost MULTI takes the fewest tokens, then the
\* next one, and so on; match([MULTI, MULTI], ["a", "b"]) is ["", "a b"].
C8_BacktrackingShortestFirst ==
    pc = "matched" =>
        /\ mat.matched <=> Assignments(pat, src) # {}
        /\ mat.matched =>
              mat.captures = CapturesOf(pat, src, Least(Assignments(pat, src)))
        /\ ~mat.matched => mat = None
        /\ (pat = <<MULTI, MULTI>> /\ src = <<"a", "b">>) =>
              mat = Some(<<"", "a b">>)

\* The MULTI cannot stop at the first "a": the split is retried.
C8_Witness ==
    /\ pc = "matched"
    /\ pat = <<MULTI, "a">>
    /\ src = <<"a", "b", "a">>
    /\ mat = Some(<<"a b">>)

(***************************************************************************)
(* Properties of the configured table and of the session.                  *)
(***************************************************************************)
\* What an adapter is expected to return for a lookup that succeeded: the
\* raw value, with " ft" after an elevation or a runway length.
ExpectedAnswers(a) ==
    CASE a = "birth_date" -> {<<v>> : v \in FieldValues("birth")}
      [] a = "polar_radius" -> {<<v>> : v \in FieldValues("radius")}
      [] a = "address" -> {<<v>> : v \in FieldValues("address")}
      [] a = "elevation" -> {<<v \o " ft">> : v \in FieldValues("elevation")}
      [] a = "runway_length" -> {<<v \o " ft">> : v \in FieldValues("length")}
      [] OTHER -> {}

\* C9 as first stated: an action that returns returns exactly one string,
\* every list search_pa_list returns is non-empty, and none is
\* ["No answers"].
C9_NeverNoAnswers ==
    /\ outcome.exc = "none" =>
          /\ Len(outcome.answer) = 1
          /\ outcome.answer \in ExpectedAnswers(act)
    /\ ret.returned =>
          /\ ret.value # <<>>
          /\ ret.value # <<"No answers">>

\* C9: in a session with the configured table, an action that returns
\* returns exactly one string, the raw value with its unit suffix where it
\* has one; every list search_pa_list returns is non-empty and, when an
\* action was called, is that action's own list, never a substitute for an
\* empty one; it is ["No answers"] only when the address action looked up
\* the value "No answers".
C9_OneAnswerPerLookup ==
    /\ outcome.exc = "none" =>
          /\ Len(outcome.answer) = 1
          /\ outcome.answer \in ExpectedAnswers(act)
    /\ ret.returned =>
          /\ ret.value # <<>>
          /\ calls # <<>> => ret.value = outcome.answer
          /\ ret.value = <<"No answers">> =>
                /\ Len(calls) = 1
                /\ calls[1].act = "address"
                /\ outcome = Returned(<<"No answers">>)

\* The address found on the page reads "No answers": the list returned is
\* the action's, and equals the sentinel.
C9_Witness ==
    /\ pc = "returned"
    /\ act = "address"
    /\ outcome = Returned(<<"No answers">>)
    /\ ret = HasReturned(<<"No answers">>)

\* t holds the entries of pa_list, in any order.
IsReordering(t) ==
    /\ Len(t) = Len(pa_list)
    /\ {t[k] : k \in 1..Len(t)} = {pa_list[k] : k \in 1..Len(pa_list)}

\* C10: at most one pattern of pa_list matches any input; the pattern of
\* the termination action matches ["bye"] and nothing else; and under every
\* reordering of the table search_pa_list invokes the action (with the
\* captures) that the declared order invokes, or none where that invokes
\* none.
C10_PatternsDisjoint ==
    LET m == Matching(pa_list, src)
        first == Lowest(m)
    IN  /\ Cardinality(m) <= 1
        /\ \A k \in 1..Len(pa_list) :
              pa_list[k].act = "bye_action" => (k \in m <=> src = <<"bye">>)
        /\ IsReordering(table) =>
              /\ calls # <<>> =>
                    /\ first # 0
                    /\ calls = << [act |-> pa_list[first].act,
                                   mat |-> match(pa_list[first].pat,
                                                 src).captures] >>
              /\ (Finished /\ calls = <<>>) =>
                    /\ first = 0
                    /\ ret = HasReturned(<<"I don't understand">>)
              /\ (Finished /\ first # 0) => calls # <<>>

\* The table reversed: the birth date query, now tried last, is answered
\* by the birth date action.
C10_Witness ==
    /\ pc = "returned"
    /\ table = [k \in 1..Len(pa_list) |-> pa_list[Len(pa_list) + 1 - k]]
    /\ src = <<"when", "was", "born", "at", "born">>
    /\ calls = << [act |-> "birth_date", mat |-> <<"born at">>] >>

\* The session is over, one way or the other.
Ended == pc \in {"farewell", "done", "crashed"}

\* C5: a lookup failure does not end the session: the session ends only on
\* the termination signal, an interrupt or the end of the input.
C5_LookupFailureCaught ==
    /\ Ended => exc \in Caught
    /\ outcome.exc \in LookupFailures => pc # "crashed"

\* The places of the prompt in the transcript.
Prompts == {k \in 1..Len(out) : out[k] = PromptLine}
LastPrompt == CHOOSE k \in Prompts : \A j \in Prompts : j <= k

\* The query being processed is ["bye"] and the loop of search_pa_list is
\* over.
ByeDispatched == src = <<"bye">> /\ pc \notin {"search", "call"}

\* Every earlier query had an answer printed after its prompt; nothing
\* follows the prompt of the last one but the farewell, once.
ByeTranscript ==
    /\ Cardinality(Prompts) = nread
    /\ \A k \in Prompts :
          /\ out[k - 1] = ""
          /\ k # LastPrompt => out[k + 1] \notin {"", PromptLine, FarewellLine}
    /\ \A k \in 1..Len(out) : out[k] = FarewellLine => k = Len(out)
    /\ IF pc = "done"
       THEN out = Take(out, LastPrompt) \o <<FarewellLine>>
       ELSE LastPrompt = Len(out)

C6_ByeState ==
    /\ (src = <<"bye">> /\ pc = "call") => act = "bye_action"
    /\ ByeDispatched =>
          /\ pc \in {"raised", "farewell", "done"}
          /\ calls = << [act |-> "bye_action", mat |-> <<>>] >>
          /\ outcome = Raised("KeyboardInterrupt")
          /\ exc = "KeyboardInterrupt"
          /\ ret = NotReturned
          /\ ByeTranscript

C6_ByeStep ==
    ByeDispatched =>
        /\ pc # "done"
        /\ pc = "raised" => pc' = "farewell" /\ out' = out
        /\ pc = "farewell" => pc' = "done" /\ out' = Append(out, FarewellLine)
        /\ nread' = nread
        /\ src' = src
        /\ calls' = calls

\* C6: on the query ["bye"] the termination action is invoked and its
\* KeyboardInterrupt leaves search_pa_list with nothing returned; query_loop
\* then breaks and prints the farewell once, and nothing else: no answer
\* for that query, no further prompt, no further call; every earlier query
\* had its answer printed.
C6_ByeEndsSession == [](C6_ByeState) /\ [][C6_ByeStep]_vars

\* A session that answered an elevation query and then read "Bye?".
C6_Witness ==
    /\ pc = "done"
    /\ src = <<"bye">>
    /\ nread = 2
    /\ out = <<WelcomeLine, "", PromptLine, "13 ft", "", PromptLine,
               FarewellLine>>

=============================================================================
